---- MODULE Spec2Model ----
(***************************************************************************)
(* Model of src/src/handler/withdraw.c (Ledger Acre app): handler_withdraw *)
(* and the functions it calls.  One request is processed from the state    *)
(* after the APDU has been received; every action is one step of the C     *)
(* code, ordered by the program counter pc.                                *)
(*                                                                         *)
(* External collaborators (chunk retrieval, script decoder, key            *)
(* derivation, user interface, signer) are choices over their possible     *)
(* results.  Hash functions are modelled by a position-sensitive checksum  *)
(* expanded to 32 bytes; an incremental hash context is the sequence of    *)
(* bytes absorbed since its initialisation.                                *)
(***************************************************************************)
EXTENDS Integers, Sequences, FiniteSets, TLC

(* ------------------------------------------------------------------ *)
(* Program constants                                                   *)
(* ------------------------------------------------------------------ *)
DATA_CHUNK_INDEX_1 == 5
DATA_CHUNK_INDEX_2 == 10
CHUNK_SIZE_IN_BYTES == 64
ADDRESS_SIZE_IN_BYTES == 20
AMOUNT_SIZE_IN_CHARS == 50
MAX_TICKER_LEN == 5
CHUNK_SECOND_PART == 32
KECCAK_256_HASH_SIZE == 32
FIELD_SIZE == 32
COIN_VARIANT_ACRE == 1
COIN_VARIANT_ACRE_TESTNET == 2
\* the build this model describes: the mainnet variant
COIN_VARIANT == COIN_VARIANT_ACRE
\* bounds of the platform headers, used (not set) by this file
MAX_BIP32_PATH_STEPS == 8
MAX_DER_SIG_LEN == 72
MAX_ADDRESS_LENGTH_STR == 74
CX_ECCINFO_PARITY_ODD == 1
\* a uint32_t is kept as its two 16-bit halves <<high, low>>;
\* (uint32_t) -1 is what sign_tx_hash returns on failure
UINT32_MINUS_ONE == <<65535, 65535>>
Uint32(n) == <<0, n>>

BSM_SIGN_MAGIC ==
    <<24, 66, 105, 116, 99, 111, 105, 110, 32, 83, 105, 103, 110, 101, 100,
      32, 77, 101, 115, 115, 97, 103, 101, 58, 10>>

abi_encoded_chain_id ==
    IF COIN_VARIANT = COIN_VARIANT_ACRE
    THEN [k \in 1..32 |-> IF k = 32 THEN 1 ELSE 0]
    ELSE [k \in 1..32 |-> IF k = 30 THEN 170 ELSE IF k = 31 THEN 54
                          ELSE IF k = 32 THEN 167 ELSE 0]

domain_separator_typehash ==
    <<71, 231, 149, 52, 162, 69, 149, 46, 139, 22, 137, 58, 51, 107, 133, 163,
      217, 234, 159, 168, 197, 115, 243, 216, 3, 175, 185, 42, 121, 70, 146, 24>>

safe_tx_typehash ==
    <<187, 131, 16, 212, 134, 54, 141, 182, 189, 111, 132, 148, 2, 253, 215, 58,
      213, 61, 49, 107, 90, 75, 38, 68, 173, 110, 254, 15, 148, 18, 134, 216>>

(* ------------------------------------------------------------------ *)
(* Bounds of the model                                                 *)
(* ------------------------------------------------------------------ *)
\* largest chunk count a request announces
MaxChunks == 11
\* how many retrievals the host may fail although the index is in range
MaxHostFailures == 1
\* Merkle roots tried: each commits to a different chunk stream
Roots == {1, 2}

\* chunk counts tried: none, too few for the second display chunk, all
ChunkCounts == {0, 7, MaxChunks}
\* path lengths tried: master key, one step, one more than allowed
PathLens == {0, 1, MAX_BIP32_PATH_STEPS + 1}
\* values an uninitialised stack byte is observed with
UninitBytes == {0, 170}

(* ------------------------------------------------------------------ *)
(* Byte helpers                                                        *)
(* ------------------------------------------------------------------ *)
\* bytes [off, off+size) of a buffer (0-based offsets, as in C)
Slice(buf, off, size) == [k \in 1..size |-> buf[off + k]]

Fill(size, b) == [k \in 1..size |-> b]

\* memcpy(dst + off, src, Len(src)); a write past the end grows the sequence
\* so that an overflow of the destination is visible
MemcpyAt(dst, off, src) ==
    CHOOSE out \in
        {[k \in 1..n |-> IF k > off /\ k <= off + size THEN src[k - off]
                         ELSE IF k <= Len(dst) THEN dst[k] ELSE -1] :
            size \in {Len(src)},
            n \in {IF off + Len(src) > Len(dst) THEN off + Len(src)
                   ELSE Len(dst)}} : TRUE

\* add_leading_zeroes(dest, dest_size, src, src_size)
add_leading_zeroes(dest_size, src) ==
    [k \in 1..dest_size |->
        IF k <= dest_size - Len(src) THEN 0 ELSE src[k - (dest_size - Len(src))]]

RECURSIVE ReadBE(_, _, _, _)
ReadBE(buf, off, size, acc) ==
    IF size = 0 THEN acc
    ELSE ReadBE(buf, off + 1, size - 1, acc * 256 + buf[off + 1])

\* a uint64_t is kept as its eight bytes, most significant first
read_u64_be(buf, off) == Slice(buf, off, 8)
read_u16_be(buf, off) == ReadBE(buf, off, 2, 0)

(* ------------------------------------------------------------------ *)
(* Hash functions (cx_hash_no_throw with CX_LAST, cx_hash_sha256)      *)
(* ------------------------------------------------------------------ *)
\* a checksum of the bytes s[lo..hi], each weighted by its position
\* (the range is halved so that the evaluation stays shallow)
RECURSIVE Absorb(_, _, _)
Absorb(s, lo, hi) ==
    IF lo > hi THEN 0
    ELSE IF lo = hi
    THEN ((s[lo] + 1) * ((lo * lo * lo + 11 * lo + 7) % 65521)) % 65521
    ELSE CHOOSE out \in
            {(Absorb(s, lo, mid) + Absorb(s, mid + 1, hi)) % 65521 :
                mid \in {(lo + hi) \div 2}} : TRUE

Digest32(a, tag) ==
    [k \in 1..32 |->
        ((IF k % 2 = 1 THEN a \div 256 ELSE a % 256) + 7 * k + tag) % 256]

\* (the input and its checksum are each bound once, as the element of a
\* singleton)
Keccak256(s) ==
    CHOOSE out \in
        {Digest32(a, 0) :
            a \in {(Absorb(v, 1, Len(v)) + 7 * Len(v) + 3) % 65521 : v \in {s}}} : TRUE
Sha256(s) ==
    CHOOSE out \in
        {Digest32(a, 1) :
            a \in {(Absorb(v, 1, Len(v)) + 11 * Len(v) + 5) % 65521 : v \in {s}}} : TRUE

\* format_hex: two lowercase hexadecimal characters per byte
HexChar(n) == IF n < 10 THEN 48 + n ELSE 87 + n
format_hex(bytes) ==
    [k \in 1..(2 * Len(bytes)) |->
        IF k % 2 = 1 THEN HexChar(bytes[(k + 1) \div 2] \div 16)
        ELSE HexChar(bytes[k \div 2] % 16)]

\* crypto_hash_update_varint for lengths below 0xfd: one byte
Varint(n) == <<n>>

(* ------------------------------------------------------------------ *)
(* The chunk stream committed to by a Merkle root                      *)
(* ------------------------------------------------------------------ *)
ChunkByte(root, i, j) == (root * 89 + i * 67 + j * 3 + 1) % 256

\* amounts (uint64, big-endian) a stream carries in its display field
SampleAmounts ==
    << <<20, 209, 18, 13, 123, 22, 0, 0>>,          \* 1500000000000000000
       <<13, 224, 182, 179, 167, 100, 0, 0>>,       \* 1000000000000000000
       <<138, 199, 35, 4, 137, 232, 0, 0>>,         \* 10000000000000000000
       <<0, 0, 0, 0, 0, 0, 0, 0>>,                  \* 0
       <<0, 0, 0, 0, 0, 0, 0, 1>>,                  \* 1
       <<1, 99, 69, 120, 93, 138, 0, 0>>,           \* 100000000000000000
       <<14, 146, 89, 111, 214, 41, 0, 0>>,         \* 1050000000000000000
       <<140, 42, 104, 124, 231, 114, 0, 0>>,       \* 10100000000000000000
       <<255, 255, 255, 255, 255, 255, 255, 255>> >> \* 18446744073709551615
AmountOfRoot(root) == SampleAmounts[((root - 1) % Len(SampleAmounts)) + 1]
\* one root for each sample amount
AmountRoots == 1..Len(SampleAmounts)

\* values (16 bits, big-endian) a stream carries in the length word of its
\* redeemer output script
SampleScriptLengths == <<23, 0, 1, 32, 33, 34, 255, 256, 65535>>
ScriptLengthOfRoot(root) ==
    SampleScriptLengths[((root - 1) % Len(SampleScriptLengths)) + 1]

\* the stream of a root: its chunk DATA_CHUNK_INDEX_1 carries the root's
\* amount in bytes [56,64), its chunk DATA_CHUNK_INDEX_2 the root's script
\* length in bytes [30,32)
Chunk(root, i) ==
    [k \in 1..CHUNK_SIZE_IN_BYTES |->
        IF i = DATA_CHUNK_INDEX_1 /\ k > CHUNK_SECOND_PART + 24
        THEN AmountOfRoot(root)[k - (CHUNK_SECOND_PART + 24)]
        ELSE IF i = DATA_CHUNK_INDEX_2 /\ k = 31
        THEN ScriptLengthOfRoot(root) \div 256
        ELSE IF i = DATA_CHUNK_INDEX_2 /\ k = 32
        THEN ScriptLengthOfRoot(root) % 256
        ELSE ChunkByte(root, i, k - 1)]

(* ------------------------------------------------------------------ *)
(* State                                                               *)
(* ------------------------------------------------------------------ *)
VARIABLES
    autoapprove,        \* HAVE_AUTOAPPROVE_FOR_PERF_TESTS is defined
    request,            \* what the read buffer holds: read_ok, bip32_path_len,
                        \* n_chunks, data_merkle_root
    run,                \* 1: the request is handled; 2: the same request,
                        \* submitted once more, is handled
    first,              \* what handling the first submission left behind
    pc,                 \* position in handler_withdraw and its callees
    sent,               \* responses sent: SEND_SW, SAFE_SEND_SW, SEND_RESPONSE
    notified,           \* arguments of ui_post_processing_confirm_withdraw
    ui_calls,           \* arguments of ui_validate_withdraw_data_and_confirm
    host_failures,      \* in-range retrievals the host has failed
    failed,             \* retrievals that failed: pass and chunk index
    data_chunk,         \* display_data_content_and_confirm: data_chunk
    value_u64,          \* display_data_content_and_confirm: value_u64
    value_with_ticker,  \* display_data_content_and_confirm: value_with_ticker
                        \* while the function runs
    address_type,       \* display_data_content_and_confirm: address_type
    redeemer_address,   \* display_data_content_and_confirm: redeemer_address
    redeemer_address_len,
    script_slice,       \* display_data_content_and_confirm: offset and length
                        \* of the slice handed to the script decoders
    check_calls,        \* calls of check_address: length as received, results
                        \* of its two collaborators, value returned
    hash_context,       \* compute_tx_hash: bytes absorbed by hash_context
    i,                  \* fetch_and_hash_tx_data: loop index
    half,               \* fetch_and_hash_tx_data: which call of the loop body
    keccak_of_tx_data,
    abi_encoded_tx_fields,
    field,              \* fetch_and_abi_encode_tx_fields: next word (offset / 32)
    buffer_writes,      \* offsets written in abi_encoded_tx_fields, in order
    keccak_of_abi_encoded_tx_fields,
    domain_separator_hash,
    abi_encode_packed,
    tx_hash,
    tx_hash_str,
    bsm_digest,
    signer_calls,       \* calls of crypto_ecdsa_sign_sha256_hash_with_key:
                        \* key path, hash, and the signer's answer
    sig,
    info,
    result

ioVars == <<sent, notified>>
hostVars == <<host_failures, failed>>
dispVars == <<data_chunk, value_u64, value_with_ticker, address_type,
              redeemer_address, redeemer_address_len, script_slice,
              check_calls, ui_calls>>
payloadVars == <<hash_context, i, half, keccak_of_tx_data>>
structVars == <<abi_encoded_tx_fields, field, buffer_writes,
                keccak_of_abi_encoded_tx_fields>>
finalVars == <<domain_separator_hash, abi_encode_packed, tx_hash>>
signVars == <<tx_hash_str, bsm_digest, signer_calls, sig, info, result>>
reqVars == <<autoapprove, request, run, first>>

vars == <<reqVars, pc, ioVars, hostVars, dispVars, payloadVars, structVars,
          finalVars, signVars>>

Requests ==
    [read_ok : BOOLEAN, bip32_path_len : PathLens, n_chunks : ChunkCounts,
     data_merkle_root : Roots]

\* the locals of handler_withdraw and of its callees before the first
\* statement, and nothing sent yet
InitLocals ==
    /\ pc = "read_request"
    /\ sent = <<>>
    /\ notified = <<>>
    /\ ui_calls = <<>>
    /\ failed = {}
    /\ data_chunk = <<>>
    /\ value_u64 = <<>>
    /\ value_with_ticker = <<>>
    /\ address_type = 0
    /\ redeemer_address = <<>>
    /\ redeemer_address_len = 0
    /\ script_slice = <<>>
    /\ check_calls = <<>>
    /\ hash_context = <<>>
    /\ i = 0
    /\ half = 0
    /\ keccak_of_tx_data = <<>>
    /\ abi_encoded_tx_fields = <<>>
    /\ field = 0
    /\ buffer_writes = <<>>
    /\ keccak_of_abi_encoded_tx_fields = <<>>
    /\ domain_separator_hash = <<>>
    /\ abi_encode_packed = <<>>
    /\ tx_hash = <<>>
    /\ tx_hash_str = <<>>
    /\ bsm_digest = <<>>
    /\ signer_calls = <<>>
    /\ sig = <<>>
    /\ info = Uint32(0)
    /\ result = <<>>

\* the request is being handled for the first time
FirstSubmission == run = 1 /\ first = <<>>

Init ==
    /\ autoapprove \in BOOLEAN
    /\ request \in Requests
    /\ FirstSubmission
    /\ host_failures = 0
    /\ InitLocals

(* ------------------------------------------------------------------ *)
(* Responses and notifications                                         *)
(* ------------------------------------------------------------------ *)
\* SEND_SW / SAFE_SEND_SW (dc is never NULL past the first check)
SEND_SW(log, sw) == Append(log, [sw |-> sw, data |-> <<>>])
SEND_RESPONSE(log, data, sw) == Append(log, [sw |-> sw, data |-> data])
ui_post_processing_confirm_withdraw(log, success) == Append(log, success)

\* the sequence with a failed notification escalated to a further outcome
ReportFailure_escalating(sw) ==
    \E shown \in BOOLEAN :
        /\ sent' = IF shown THEN SEND_SW(sent, sw)
                   ELSE SEND_SW(SEND_SW(sent, sw), "BadState")
        /\ notified' = ui_post_processing_confirm_withdraw(notified, FALSE)

\* the recurring "send code, notify the display of failure" sequence; the
\* result `shown' of the notification is printed and not otherwise used
ReportFailure(sw) ==
    \E shown \in BOOLEAN :
        /\ sent' = SEND_SW(sent, sw)
        /\ notified' = ui_post_processing_confirm_withdraw(notified, FALSE)

(* ------------------------------------------------------------------ *)
(* Chunk retrieval: call_get_merkle_leaf_element                       *)
(* ------------------------------------------------------------------ *)
\* an index at or past n_chunks has no leaf; an index in range is served
\* unless the host fails the retrieval or its proof
FetchOutcomes(index) ==
    IF index >= request.n_chunks THEN {FALSE}
    ELSE IF host_failures < MaxHostFailures THEN {TRUE, FALSE}
    ELSE {TRUE}

Retrieve(pass, index, ok) ==
    /\ ok \in FetchOutcomes(index)
    /\ host_failures' = IF ~ok /\ index < request.n_chunks
                        THEN host_failures + 1 ELSE host_failures
    /\ failed' = IF ok THEN failed
                 ELSE failed \cup {[pass |-> pass, index |-> index]}

TheChunk(index) == Chunk(request.data_merkle_root, index)

(* ------------------------------------------------------------------ *)
(* handler_withdraw: reading the request                               *)
(* ------------------------------------------------------------------ *)
\* the checks without the bound on the path length
RequestVerdict_nolimit(req) ==
    IF ~req.read_ok THEN "WrongDataLength" ELSE "Accepted"

\* lines 739-756: what the two checks of the request decide
RequestVerdict(req) ==
    IF ~req.read_ok THEN "WrongDataLength"
    ELSE IF req.bip32_path_len > MAX_BIP32_PATH_STEPS THEN "IncorrectData"
    ELSE "Accepted"

ReadRequest ==
    /\ pc = "read_request"
    /\ IF RequestVerdict(request) # "Accepted"
       THEN ReportFailure(RequestVerdict(request)) /\ pc' = "done"
       ELSE /\ UNCHANGED ioVars
            /\ pc' = IF autoapprove THEN "compute_tx_hash" ELSE "display_amount"
    /\ UNCHANGED <<reqVars, hostVars, dispVars, payloadVars, structVars,
                   finalVars, signVars>>

(* ------------------------------------------------------------------ *)
(* display_data_content_and_confirm                                    *)
(* ------------------------------------------------------------------ *)
\* address types the script decoder can report (-1: invalid)
AddressTypes == {1, 2}

\* crypto_get_compressed_pubkey_at_path followed by
\* get_address_from_compressed_public_key: the address of a path and a type
get_address(path_len, type) == <<98, 99, 49, 113, 48 + path_len, 48 + type>>

\* another wallet's address, and an address differing only in letter case
OtherAddress == <<98, 99, 49, 113, 122, 122>>
UpperCase(a) == [k \in 1..Len(a) |-> IF a[k] >= 97 /\ a[k] <= 122
                                     THEN a[k] - 32 ELSE a[k]]

\* results of get_script_type and get_script_address on the script slice of
\* the chunk buffer; the host chooses the chunk, so every result is possible
ScriptDecodings(path_len) ==
    {[type |-> -1, len |-> -1, address |-> <<>>],
     [type |-> 1, len |-> -1, address |-> <<>>],
     [type |-> -1, len |-> 6, address |-> OtherAddress]}
    \cup
    {[type |-> t, len |-> Len(a), address |-> a] :
        t \in AddressTypes,
        a \in {get_address(path_len, 1), OtherAddress,
               UpperCase(get_address(path_len, 1))}}

\* check_address comparing without regard to letter case
check_address_nocase(path_len, address_to_check, address_to_check_len, type, derive_ok, encode_ok) ==
    /\ ~(address_to_check_len % 256 > MAX_ADDRESS_LENGTH_STR)
    /\ ~(address_to_check_len % 256 < 1)
    /\ derive_ok
    /\ encode_ok
    /\ UpperCase(get_address(path_len, type)) = UpperCase(address_to_check)

\* check_address without the upper bound on the length
check_address_nobound(path_len, address_to_check, address_to_check_len, type, derive_ok, encode_ok) ==
    /\ ~(address_to_check_len % 256 < 1)
    /\ derive_ok
    /\ encode_ok
    /\ get_address(path_len, type) = address_to_check

\* check_address; derive_ok and encode_ok are the results of the two
\* collaborators; the length arrives as uint8_t
check_address(path_len, address_to_check, address_to_check_len, type, derive_ok, encode_ok) ==
    /\ ~(address_to_check_len % 256 > MAX_ADDRESS_LENGTH_STR)
    /\ ~(address_to_check_len % 256 < 1)
    /\ derive_ok
    /\ encode_ok
    /\ get_address(path_len, type) = address_to_check

\* uint64 / 10 on the bytes of the value: quotient bytes and remainder
\* (each intermediate value is bound once, as an element of a singleton)
RECURSIVE DivMod10(_, _, _, _)
DivMod10(bytes, k, rem, acc) ==
    IF k > Len(bytes) THEN [q |-> acc, r |-> rem]
    ELSE CHOOSE out \in
            {DivMod10(bytes, k + 1, cur % 10, Append(acc, cur \div 10)) :
                cur \in {rem * 256 + bytes[k]}} : TRUE

IsZero(bytes) == \A k \in 1..Len(bytes) : bytes[k] = 0

RECURSIVE DecimalDigits(_, _)
DecimalDigits(bytes, acc) ==
    IF IsZero(bytes) THEN acc
    ELSE CHOOSE out \in
            {DecimalDigits(d.q, <<48 + d.r>> \o acc) :
                d \in {DivMod10(bytes, 1, 0, <<>>)}} : TRUE

\* format_u64: the decimal digits of the value, "0" for zero
format_u64(value) ==
    IF IsZero(value) THEN <<48>> ELSE DecimalDigits(value, <<>>)

\* format_fpu64: the full fixed-point rendering with `decimals' digits
\* after the point
FixedPoint(buffer, digits, decimals) ==
    IF digits <= decimals
    THEN <<48, 46>> \o Fill(decimals - digits, 48) \o buffer
    ELSE SubSeq(buffer, 1, digits - decimals) \o <<46>>
         \o SubSeq(buffer, digits - decimals + 1, digits)

format_fpu64(value, decimals) ==
    CHOOSE out \in {FixedPoint(buffer, Len(buffer), decimals) :
                        buffer \in {format_u64(value)}} : TRUE

\* "stBTC "
TickerPrefix == <<115, 116, 66, 84, 67, 32>>

\* line 188-189: snprintf into the uninitialised value_with_ticker; the
\* bytes behind the terminator keep what the stack held
TerminatedIn(text, size, g) ==
    [k \in 1..size |-> IF k <= Len(text) THEN text[k]
                       ELSE IF k = Len(text) + 1 THEN 0
                       ELSE g]

snprintf_value_with_ticker(value, g) ==
    CHOOSE out \in
        {TerminatedIn(text, AMOUNT_SIZE_IN_CHARS + 1 + MAX_TICKER_LEN + 1, g) :
            text \in {TickerPrefix \o value}} : TRUE

\* lines 193-200: where the loop stops (idx is the C index)
RECURSIVE TrimIndex(_, _)
TrimIndex(buf, idx) ==
    IF buf[idx + 1] = 48 \/ buf[idx + 1] = 0 \/ buf[idx + 1] = 46
    THEN IF idx = 0 THEN 0 ELSE TrimIndex(buf, idx - 1)
    ELSE idx

\* lines 192-203
TrimTrailingZeros(buf) ==
    CHOOSE out \in
        {IF idx < Len(buf) - 1 THEN [buf EXCEPT ![idx + 2] = 0] ELSE buf :
            idx \in {TrimIndex(buf, Len(buf) - 1)}} : TRUE

\* the string a char buffer holds: the bytes before the first terminator
StrLen(buf) ==
    CHOOSE n \in 0..Len(buf) :
        /\ n = Len(buf) \/ buf[n + 1] = 0
        /\ \A k \in 1..n : buf[k] # 0
CString(buf) == SubSeq(buf, 1, StrLen(buf))

\* lines 164-203: first display chunk, amount
DisplayFetchAmount ==
    /\ pc = "display_amount"
    /\ \E ok \in BOOLEAN :
         /\ Retrieve("confirm", DATA_CHUNK_INDEX_1, ok)
         \* the return value is not looked at; after a failure the buffer
         \* holds whatever the stack held
         /\ \E g \in (IF ok THEN {0} ELSE UninitBytes) :
              data_chunk' = IF ok THEN TheChunk(DATA_CHUNK_INDEX_1)
                            ELSE Fill(CHUNK_SIZE_IN_BYTES, g)
    /\ value_u64' = read_u64_be(data_chunk', CHUNK_SECOND_PART + 24)
    /\ \E g \in UninitBytes :
         \E value \in {format_fpu64(value_u64', 18)} :
         \E buf \in {snprintf_value_with_ticker(value, g)} :
            value_with_ticker' = TrimTrailingZeros(buf)
    /\ pc' = "display_script"
    /\ UNCHANGED <<reqVars, ioVars, address_type, redeemer_address,
                   redeemer_address_len, script_slice, check_calls, ui_calls,
                   payloadVars, structVars, finalVars, signVars>>

\* lines 213-216: the length word, at most 32
ClampScriptLength(word) == IF word > 32 THEN 32 ELSE word

\* len_redeemer_output_script - 1 in size_t, which has 32 bits on the
\* device: 0 - 1 is SIZE_MAX
SizeMinusOne(n) == IF n = 0 THEN UINT32_MINUS_ONE ELSE Uint32(n - 1)

\* lines 204-229: second display chunk, redeemer script
DisplayFetchScript ==
    /\ pc = "display_script"
    /\ \E ok \in BOOLEAN :
         /\ Retrieve("confirm", DATA_CHUNK_INDEX_2, ok)
         \* the return value is not looked at; after a failure the buffer
         \* still holds the previous chunk
         /\ data_chunk' = IF ok THEN TheChunk(DATA_CHUNK_INDEX_2) ELSE data_chunk
    \* lines 212-217 and 222-227: the slice both decoders are handed
    /\ script_slice' =
          [offset |-> CHUNK_SECOND_PART + 1,
           len |-> SizeMinusOne(ClampScriptLength(read_u16_be(data_chunk', 30)))]
    \* the decoder is handed a slice of data_chunk; its answer is any of the
    \* answers a script can decode to
    /\ \E d \in ScriptDecodings(request.bip32_path_len) :
         /\ address_type' = d.type
         /\ redeemer_address_len' = d.len
         /\ redeemer_address' = d.address
    /\ pc' = "display_validate"
    /\ UNCHANGED <<reqVars, ioVars, value_u64, value_with_ticker, check_calls,
                   ui_calls, payloadVars, structVars, finalVars, signVars>>

\* lines 231-238: the decoder reported an invalid type or length
DisplayDecodeInvalid ==
    /\ pc = "display_validate"
    /\ address_type = -1 \/ redeemer_address_len = -1
    /\ ReportFailure("IncorrectData")
    /\ value_with_ticker' = <<>>
    /\ pc' = "display_false"
    /\ UNCHANGED <<reqVars, hostVars, data_chunk, value_u64, address_type,
                   redeemer_address, redeemer_address_len, script_slice,
                   check_calls, ui_calls, payloadVars, structVars, finalVars,
                   signVars>>

\* line 239: check_address is called with the decoded address; it sends
\* nothing itself
DisplayCheckAddress ==
    /\ pc = "display_validate"
    /\ ~(address_type = -1 \/ redeemer_address_len = -1)
    \* the encoder is asked only for a key that was derived
    /\ \E derive_ok \in BOOLEAN :
       \E encode_ok \in (IF derive_ok THEN BOOLEAN ELSE {FALSE}) :
       \E returned \in {check_address(request.bip32_path_len, redeemer_address,
                                      redeemer_address_len, address_type,
                                      derive_ok, encode_ok)} :
         check_calls' = Append(check_calls,
                               [len |-> redeemer_address_len % 256,
                                derive_ok |-> derive_ok,
                                encode_ok |-> encode_ok,
                                returned |-> returned])
    /\ pc' = "address_checked"
    /\ UNCHANGED <<reqVars, ioVars, hostVars, data_chunk, value_u64,
                   value_with_ticker, address_type, redeemer_address,
                   redeemer_address_len, script_slice, ui_calls, payloadVars,
                   structVars, finalVars, signVars>>

\* lines 239-249: what display_data_content_and_confirm does with the value
\* check_address returned
DisplayAddressVerdict ==
    /\ pc = "address_checked"
    /\ IF check_calls[Len(check_calls)].returned
       THEN /\ pc' = "ui_confirm"
            /\ UNCHANGED <<ioVars, value_with_ticker>>
       ELSE /\ ReportFailure("IncorrectData")
            /\ value_with_ticker' = <<>>
            /\ pc' = "display_false"
    /\ UNCHANGED <<reqVars, hostVars, data_chunk, value_u64, address_type,
                   redeemer_address, redeemer_address_len, script_slice,
                   check_calls, ui_calls, payloadVars, structVars, finalVars,
                   signVars>>

\* the handler going on to the hash whatever the user answered
AfterConfirm_ignored(approve) == "compute_tx_hash"

\* a denied request put before the user once more
AfterConfirm_retry(approve) ==
    IF approve THEN "compute_tx_hash" ELSE "display_amount"

\* the handler waiting for another answer after a denial
AfterConfirm_wait(approve) ==
    IF approve THEN "compute_tx_hash" ELSE "waiting"

\* lines 252-256 and 764: where the user's answer leads
AfterConfirm(approve) ==
    IF approve THEN "compute_tx_hash" ELSE "display_false"

\* lines 251-256: ui_validate_withdraw_data_and_confirm is shown the text of
\* value_with_ticker and the address; the user's answer.  The text is a
\* local of the function and is gone once it returns
DisplayConfirm ==
    /\ pc = "ui_confirm"
    /\ \E approve \in BOOLEAN :
         /\ ui_calls' = Append(ui_calls, [value |-> value_u64,
                                          address |-> redeemer_address,
                                          approved |-> approve])
         /\ pc' = AfterConfirm(approve)
    /\ value_with_ticker' = <<>>
    /\ UNCHANGED <<reqVars, ioVars, hostVars, data_chunk, value_u64,
                   address_type, redeemer_address, redeemer_address_len,
                   script_slice, check_calls, payloadVars, structVars,
                   finalVars, signVars>>

\* handler_withdraw lines 764-774: display_data_content_and_confirm
\* returned false
HandlerDeny ==
    /\ pc = "display_false"
    /\ ReportFailure("Denied")
    /\ pc' = "done"
    /\ UNCHANGED <<reqVars, hostVars, dispVars, payloadVars, structVars,
                   finalVars, signVars>>

(* ------------------------------------------------------------------ *)
(* compute_tx_hash: payload hash (fetch_and_hash_tx_data)              *)
(* ------------------------------------------------------------------ *)
\* fetch_and_add_chunk_to_hash, lines 332-342: what the context has absorbed
\* after the call; a failed retrieval returns before the update
fetch_and_add_chunk_to_hash(ctx, index, chunk_offset, chunk_data_size, ok) ==
    IF ok THEN ctx \o Slice(TheChunk(index), chunk_offset, chunk_data_size)
    ELSE ctx

\* fetch_and_add_chunk_to_hash, lines 319-331: retrieval and failure report
HashFetch(index, ok) ==
    /\ Retrieve("hash", index, ok)
    /\ IF ok THEN UNCHANGED ioVars ELSE ReportFailure("WrongDataLength")

\* lines 595 and 426: context initialised, function selector absorbed
HashSelector ==
    /\ pc = "compute_tx_hash"
    /\ \E ok \in BOOLEAN :
         /\ HashFetch(4, ok)
         /\ hash_context' = fetch_and_add_chunk_to_hash(<<>>, 4, 0, 4, ok)
    /\ i' = 5
    /\ half' = 0
    /\ pc' = "hash_loop"
    /\ UNCHANGED <<reqVars, dispVars, keccak_of_tx_data, structVars,
                   finalVars, signVars>>

\* lines 428-433: one of the two calls of the loop body
HashLoopBody ==
    /\ pc = "hash_loop"
    /\ i < request.n_chunks
    /\ \E ok \in BOOLEAN :
         /\ HashFetch(i, ok)
         /\ hash_context' = fetch_and_add_chunk_to_hash(
                                hash_context, i, half * CHUNK_SECOND_PART, 32, ok)
    /\ half' = 1 - half
    /\ i' = IF half = 1 THEN i + 1 ELSE i
    /\ UNCHANGED <<reqVars, pc, dispVars, keccak_of_tx_data, structVars,
                   finalVars, signVars>>

\* lines 435-440: the payload hash is finalised
HashFinalize ==
    /\ pc = "hash_loop"
    /\ ~(i < request.n_chunks)
    /\ keccak_of_tx_data' = Keccak256(hash_context)
    \* abi_encoded_tx_fields is declared, not initialised (line 601)
    /\ abi_encoded_tx_fields' = Fill(FIELD_SIZE * 11, -1)
    /\ field' = 0
    /\ pc' = "abi_encode"
    /\ UNCHANGED <<reqVars, ioVars, hostVars, dispVars, hash_context, i, half,
                   buffer_writes, keccak_of_abi_encoded_tx_fields,
                   finalVars, signVars>>

(* ------------------------------------------------------------------ *)
(* compute_tx_hash: struct buffer (fetch_and_abi_encode_tx_fields)     *)
(* ------------------------------------------------------------------ *)
\* the calls of lines 481-518 in order: source chunk, offset and size of
\* each word (chunk -1: a 32-byte value copied with memcpy)
TxFieldTable ==
    <<[chunk |-> -1, offset |-> 0, size |-> 32],    \* SafeTxTypeHash
      [chunk |-> 0, offset |-> 0, size |-> ADDRESS_SIZE_IN_BYTES],  \* to
      [chunk |-> 1, offset |-> 0, size |-> 32],     \* value
      [chunk |-> -1, offset |-> 0, size |-> 32],    \* keccak_of_tx_data
      [chunk |-> 3, offset |-> 0, size |-> 1],      \* operation
      [chunk |-> 1, offset |-> 32, size |-> 32],    \* safeTxGas
      [chunk |-> 2, offset |-> 1, size |-> 32],     \* baseGas
      [chunk |-> 2, offset |-> 32, size |-> 32],    \* gasPrice
      [chunk |-> 0, offset |-> 20, size |-> 20],    \* gasToken
      [chunk |-> 0, offset |-> 40, size |-> 20],    \* refundReceiver
      [chunk |-> 3, offset |-> 0, size |-> 32]>>    \* nonce

\* fetch_and_add_chunk_to_buffer, lines 387-400: the bytes written
AbiWord(index, chunk_offset, chunk_data_size) ==
    IF chunk_data_size < 32
    THEN add_leading_zeroes(32, Slice(TheChunk(index), chunk_offset,
                                      chunk_data_size))
    ELSE Slice(TheChunk(index), chunk_offset, chunk_data_size)

\* fetch_and_add_chunk_to_buffer, line 401; a failed retrieval returns
\* before anything is written
fetch_and_add_chunk_to_buffer(buf, index, chunk_offset, chunk_data_size, output_buffer_offset, ok) ==
    IF ok THEN CHOOSE out \in
                  {MemcpyAt(buf, output_buffer_offset, word) :
                      word \in {AbiWord(index, chunk_offset, chunk_data_size)}} : TRUE
    ELSE buf

\* the offset of word number f in the output buffer (offset += FIELD_SIZE)
WordOffset(f) == f * FIELD_SIZE

AfterField == IF field = 10 THEN "struct_hash" ELSE "abi_encode"

\* lines 481 and 497: the two hash values copied verbatim
AbiEncodeCopy ==
    /\ pc = "abi_encode"
    /\ TxFieldTable[field + 1].chunk = -1
    /\ abi_encoded_tx_fields' =
          MemcpyAt(abi_encoded_tx_fields, WordOffset(field),
                   IF field = 0 THEN safe_tx_typehash ELSE keccak_of_tx_data)
    /\ buffer_writes' = Append(buffer_writes,
                               [offset |-> WordOffset(field), size |-> 32])
    /\ field' = field + 1
    /\ pc' = AfterField
    /\ UNCHANGED <<reqVars, ioVars, hostVars, dispVars, payloadVars,
                   keccak_of_abi_encoded_tx_fields, finalVars, signVars>>

\* lines 484-518: one call of fetch_and_add_chunk_to_buffer
AbiEncodeFetch ==
    /\ pc = "abi_encode"
    /\ TxFieldTable[field + 1].chunk # -1
    /\ LET f == TxFieldTable[field + 1] IN
       \E ok \in BOOLEAN :
         /\ Retrieve("hash", f.chunk, ok)
         /\ IF ok THEN UNCHANGED ioVars ELSE ReportFailure("WrongDataLength")
         /\ abi_encoded_tx_fields' =
               fetch_and_add_chunk_to_buffer(abi_encoded_tx_fields, f.chunk,
                                             f.offset, f.size,
                                             WordOffset(field), ok)
         /\ buffer_writes' =
               IF ok THEN Append(buffer_writes,
                                 [offset |-> WordOffset(field),
                                  size |-> Len(AbiWord(f.chunk, f.offset, f.size))])
               ELSE buffer_writes
    /\ field' = field + 1
    /\ pc' = AfterField
    /\ UNCHANGED <<reqVars, dispVars, payloadVars,
                   keccak_of_abi_encoded_tx_fields, finalVars, signVars>>

\* bytes never written are read as whatever the stack held
ReadUninit(buf, g) == [k \in 1..Len(buf) |-> IF buf[k] = -1 THEN g ELSE buf[k]]
HasUninit(buf) == \E k \in 1..Len(buf) : buf[k] = -1

\* lines 611-619: hash of the struct buffer
StructHash ==
    /\ pc = "struct_hash"
    /\ \E g \in (IF HasUninit(abi_encoded_tx_fields) THEN UninitBytes ELSE {0}) :
       \E buf \in {ReadUninit(abi_encoded_tx_fields, g)} :
         /\ hash_context' = buf
         /\ keccak_of_abi_encoded_tx_fields' = Keccak256(buf)
    /\ pc' = "domain_separator"
    /\ UNCHANGED <<reqVars, ioVars, hostVars, dispVars, i, half,
                   keccak_of_tx_data, abi_encoded_tx_fields, field,
                   buffer_writes, finalVars, signVars>>

(* ------------------------------------------------------------------ *)
(* compute_domain_separator_hash and the final combination             *)
(* ------------------------------------------------------------------ *)
\* lines 544-569: what the function's own context absorbs
DomainSeparatorInput(ok) ==
    fetch_and_add_chunk_to_hash(
        domain_separator_typehash \o abi_encoded_chain_id, 7, 0, 32, ok)

ComputeDomainSeparatorHash ==
    /\ pc = "domain_separator"
    /\ \E ok \in BOOLEAN :
         /\ HashFetch(7, ok)
         /\ \E input \in {DomainSeparatorInput(ok)} :
              domain_separator_hash' = Keccak256(input)
    /\ pc' = "final_hash"
    /\ UNCHANGED <<reqVars, dispVars, payloadVars, structVars,
                   abi_encode_packed, tx_hash, signVars>>

\* the two hashes packed in the other order
EncodePacked_swapped(domain_hash, struct_hash) ==
    <<25, 1>> \o struct_hash \o domain_hash

\* lines 625-631: abi.encodePacked of the prefix and the two hashes
EncodePacked(domain_hash, struct_hash) ==
    <<25, 1>> \o domain_hash \o struct_hash

\* lines 625-641
FinalHash ==
    /\ pc = "final_hash"
    /\ \E packed \in {EncodePacked(domain_separator_hash,
                                    keccak_of_abi_encoded_tx_fields)} :
         /\ abi_encode_packed' = packed
         /\ hash_context' = packed
         /\ tx_hash' = Keccak256(packed)
    /\ pc' = "sign"
    /\ UNCHANGED <<reqVars, ioVars, hostVars, dispVars, i, half,
                   keccak_of_tx_data, structVars, domain_separator_hash,
                   signVars>>

(* ------------------------------------------------------------------ *)
(* sign_tx_hash                                                        *)
(* ------------------------------------------------------------------ *)
\* the digest with the second hash pass left out
BsmDigest_single(str) ==
    CHOOSE out \in {Sha256(message) :
                        message \in {BSM_SIGN_MAGIC \o Varint(Len(str)) \o str}} : TRUE

\* lines 663-674: the Bitcoin-signed-message digest of the hex string
BsmDigest(str) ==
    CHOOSE out \in {Sha256(Sha256(message)) :
                        message \in {BSM_SIGN_MAGIC \o Varint(Len(str)) \o str}} : TRUE

\* what crypto_ecdsa_sign_sha256_hash_with_key can answer: a DER signature
\* with components of the given lengths and a parity, or a failure
SignerOutcomes ==
    {[ok |-> TRUE, r_len |-> 32, s_len |-> 32, parity |-> 0],
     [ok |-> TRUE, r_len |-> 33, s_len |-> 33, parity |-> 1],
     [ok |-> FALSE, r_len |-> 0, s_len |-> 0, parity |-> 0]}

\* the signature's component of length len; a 33-byte component starts
\* with DER's zero pad byte
SigComponent(seed, len) ==
    [k \in 1..len |-> IF len = 33 /\ k = 1 THEN 0
                      ELSE 1 + ((seed + 5 * k) % 255)]

\* the DER encoding written to sig: 0x30 len 0x02 rlen r 0x02 slen s
DerSignature(path_len, digest, r_len, s_len) ==
    CHOOSE out \in
        {[k \in 1..MAX_DER_SIG_LEN |-> IF k <= Len(der) THEN der[k] ELSE -1] :
            der \in {<<48, 4 + r_len + s_len, 2, r_len>>
                     \o SigComponent(digest[1] + path_len, r_len)
                     \o <<2, s_len>>
                     \o SigComponent(digest[2] + path_len + 100, s_len)}} : TRUE

\* handler_withdraw lines 781-793 and sign_tx_hash lines 658-696
SignTxHash ==
    /\ pc = "sign"
    /\ \E str \in {format_hex(tx_hash)} :
       \E digest \in {BsmDigest(str)} :
       \E o \in SignerOutcomes :
         /\ tx_hash_str' = str
         /\ bsm_digest' = digest
         /\ signer_calls' = Append(signer_calls,
                                   [bip32_path_len |-> request.bip32_path_len,
                                    hash |-> digest, answer |-> o])
         /\ IF o.ok
            THEN /\ sig' = DerSignature(request.bip32_path_len, digest,
                                        o.r_len, o.s_len)
                 /\ info' = Uint32(o.parity)
                 /\ UNCHANGED ioVars
            ELSE \* sig_len < 0: sig was not written, it holds what the
                 \* stack held
                 /\ \E g \in UninitBytes : sig' = Fill(MAX_DER_SIG_LEN, g)
                 /\ ReportFailure("BadState")
                 /\ info' = UINT32_MINUS_ONE
    /\ pc' = "encode_response"
    /\ UNCHANGED <<reqVars, hostVars, dispVars, payloadVars, structVars,
                   finalVars, result>>

(* ------------------------------------------------------------------ *)
(* handler_withdraw: the 65-byte response                              *)
(* ------------------------------------------------------------------ *)
\* sig[index]; a read past the array yields any byte
SigRead(index) ==
    IF index < MAX_DER_SIG_LEN THEN {sig[index + 1]} ELSE UninitBytes

\* the encoding with byte 0 written before the two loops, so that the pad
\* byte of a 33-byte r lands on it
EncodeSignature_header_first(der, r_length, s_length, parity_info) ==
    [k \in 1..65 |->
        LET p == k - 1 IN
        IF p >= 1 + 32 - r_length /\ p <= 32
        THEN der[4 + (p - (1 + 32 - r_length)) + 1]
        ELSE IF p >= 1 + 32 + 32 - s_length /\ p <= 64
        THEN der[4 + r_length + 2 + (p - (1 + 32 + 32 - s_length)) + 1]
        ELSE IF p = 0
        THEN 27 + 4 + (IF parity_info[2] % 2 = CX_ECCINFO_PARITY_ODD THEN 1 ELSE 0)
        ELSE 0]

\* the encoding with the r loop run before the s loop, so that the pad byte
\* of a 33-byte s lands on the last byte of r
EncodeSignature_r_first(der, r_length, s_length, parity_info) ==
    [k \in 1..65 |->
        LET p == k - 1 IN
        IF p = 0
        THEN 27 + 4 + (IF parity_info[2] % 2 = CX_ECCINFO_PARITY_ODD THEN 1 ELSE 0)
        ELSE IF p >= 1 + 32 + 32 - s_length /\ p <= 64
        THEN der[4 + r_length + 2 + (p - (1 + 32 + 32 - s_length)) + 1]
        ELSE IF p >= 1 + 32 - r_length /\ p <= 32
        THEN der[4 + (p - (1 + 32 - r_length)) + 1]
        ELSE 0]

\* lines 797-821: result after memset, the s loop, the r loop and byte 0
\* (positions p are C indices)
EncodeSignature(der, r_length, s_length, parity_info) ==
    [k \in 1..65 |->
        LET p == k - 1 IN
        IF p = 0
        THEN 27 + 4 + (IF parity_info[2] % 2 = CX_ECCINFO_PARITY_ODD THEN 1 ELSE 0)
        ELSE IF p >= 1 + 32 - r_length /\ p <= 32
        THEN der[4 + (p - (1 + 32 - r_length)) + 1]
        ELSE IF p >= 1 + 32 + 32 - s_length /\ p <= 64
        THEN der[4 + r_length + 2 + (p - (1 + 32 + 32 - s_length)) + 1]
        ELSE 0]

\* the test with the length of s left out
ComponentTooLong_r_only(r_length, s_length) == r_length > 33

\* line 804
ComponentTooLong(r_length, s_length) == r_length > 33 \/ s_length > 33

\* lines 801-810: a component longer than 33 bytes
EncodeResponseBadState ==
    /\ pc = "encode_response"
    /\ \E s_length \in SigRead(4 + sig[4] + 1) :
         ComponentTooLong(sig[4], s_length)
    /\ result' = Fill(65, 0)
    /\ ReportFailure("BadState")
    /\ pc' = "done"
    /\ UNCHANGED <<reqVars, hostVars, dispVars, payloadVars, structVars,
                   finalVars, tx_hash_str, bsm_digest, signer_calls, sig, info>>

\* lines 797-827: the signature in compact form, sent with SW_OK
EncodeResponseOk ==
    /\ pc = "encode_response"
    /\ \E s_length \in SigRead(4 + sig[4] + 1) :
         /\ ~ComponentTooLong(sig[4], s_length)
         /\ result' = EncodeSignature(sig, sig[4], s_length, info)
    /\ sent' = SEND_RESPONSE(sent, result', "Ok")
    \* lines 824-826: the result of the notification is printed only
    /\ \E shown \in BOOLEAN :
         notified' = ui_post_processing_confirm_withdraw(notified, TRUE)
    /\ pc' = "done"
    /\ UNCHANGED <<reqVars, hostVars, dispVars, payloadVars, structVars,
                   finalVars, tx_hash_str, bsm_digest, signer_calls, sig, info>>

(* ------------------------------------------------------------------ *)
(* Specification                                                       *)
(* ------------------------------------------------------------------ *)
Next ==
    \/ ReadRequest
    \/ DisplayFetchAmount
    \/ DisplayFetchScript
    \/ DisplayDecodeInvalid
    \/ DisplayCheckAddress
    \/ DisplayAddressVerdict
    \/ DisplayConfirm
    \/ HandlerDeny
    \/ HashSelector
    \/ HashLoopBody
    \/ HashFinalize
    \/ AbiEncodeCopy
    \/ AbiEncodeFetch
    \/ StructHash
    \/ ComputeDomainSeparatorHash
    \/ FinalHash
    \/ SignTxHash
    \/ EncodeResponseBadState
    \/ EncodeResponseOk

Spec == Init /\ [][Next]_vars

(* ------------------------------------------------------------------ *)
(* Vocabulary of the properties                                        *)
(* ------------------------------------------------------------------ *)
Done == pc = "done"
Codes == {sent[k].sw : k \in DOMAIN sent}
SignerInvoked == signer_calls # <<>>
SignatureSent ==
    \E k \in DOMAIN sent : sent[k].sw = "Ok" /\ Len(sent[k].data) = 65
Production == ~autoapprove
\* the script of the second display chunk has been decoded
Decoded == Production /\ pc \notin {"read_request", "display_amount",
                                    "display_script"}
\* the decoded redeemer address is not, byte for byte, the address of the path
AddressMismatch ==
    /\ Decoded
    /\ ~(address_type \in AddressTypes
         /\ redeemer_address = get_address(request.bip32_path_len, address_type))
UserDenied == ui_calls # <<>> /\ ~ui_calls[Len(ui_calls)].approved
SignerFailed == SignerInvoked /\ info = UINT32_MINUS_ONE

(* ------------------------------------------------------------------ *)
(* C1: whenever the retrieval of a required chunk has failed, the      *)
(* signer is not invoked, and the request ends having emitted          *)
(* WrongDataLength.                                                    *)
(* ------------------------------------------------------------------ *)
C1_ChunkFailureStopsRequest ==
    failed # {} =>
        /\ ~SignerInvoked
        /\ Done => "WrongDataLength" \in Codes

(* ------------------------------------------------------------------ *)
(* C2: once a non-Ok outcome code has been sent, no 65-byte signature  *)
(* response with Ok is sent for the request.                           *)
(* ------------------------------------------------------------------ *)
C2_NoSignatureWithFailure ==
    (\E k \in DOMAIN sent : sent[k].sw # "Ok") => ~SignatureSent

C4_DenialShortCircuits ==
    UserDenied =>
        /\ pc \in {"display_false", "done"}
        /\ hash_context = <<>> /\ keccak_of_tx_data = <<>> /\ tx_hash = <<>>
        /\ ~SignerInvoked
        /\ Done => sent = <<[sw |-> "Denied", data |-> <<>>]>>

C4_Witness ==
    /\ Done
    /\ UserDenied
    /\ request.n_chunks = MaxChunks
    /\ failed = {}

C6_SignerFailureIsFatal ==
    (Done /\ SignerFailed) =>
        /\ sent[Len(sent)].sw = "BadState"
        /\ result = <<>>
        /\ \A k \in DOMAIN sent : sent[k].sw # "Ok" /\ sent[k].data = <<>>

(* ------------------------------------------------------------------ *)
(* C7: a finished request has reported exactly one outcome code and    *)
(* made exactly one display notification attempt.                      *)
(* ------------------------------------------------------------------ *)
C7_ExactlyOneOutcome ==
    Done => Len(sent) = 1 /\ Len(notified) = 1

RECURSIVE PayloadChunks(_, _)
PayloadChunks(from, n) ==
    IF from >= n THEN <<>>
    ELSE Slice(TheChunk(from), 0, 32) \o Slice(TheChunk(from), 32, 32)
         \o PayloadChunks(from + 1, n)

MaterialisedPayload == Slice(TheChunk(4), 0, 4) \o PayloadChunks(5, request.n_chunks)

C9_StreamEqualsBatch ==
    (pc = "abi_encode" /\ field = 0) =>
        /\ hash_context = MaterialisedPayload
        /\ keccak_of_tx_data = Keccak256(MaterialisedPayload)

(* ------------------------------------------------------------------ *)
(* C10: when fetch_and_abi_encode_tx_fields has returned true the      *)
(* buffer is the eleven words of the struct in order, narrow fields    *)
(* left-padded with zeros, each word written once, nothing written     *)
(* outside the 352 bytes.                                              *)
(* ------------------------------------------------------------------ *)
ZeroPad32(bytes) == Fill(32 - Len(bytes), 0) \o bytes

ExpectedTxFields ==
    safe_tx_typehash
    \o ZeroPad32(Slice(TheChunk(0), 0, 20))
    \o Slice(TheChunk(1), 0, 32)
    \o keccak_of_tx_data
    \o ZeroPad32(Slice(TheChunk(3), 0, 1))
    \o Slice(TheChunk(1), 32, 32)
    \o Slice(TheChunk(2), 1, 32)
    \o Slice(TheChunk(2), 32, 32)
    \o ZeroPad32(Slice(TheChunk(0), 20, 20))
    \o ZeroPad32(Slice(TheChunk(0), 40, 20))
    \o Slice(TheChunk(3), 0, 32)

C10_TxFieldsLayout ==
    pc = "struct_hash" =>
        /\ abi_encoded_tx_fields = ExpectedTxFields
        /\ Len(abi_encoded_tx_fields) = 352
        /\ buffer_writes = [w \in 1..11 |-> [offset |-> 32 * (w - 1), size |-> 32]]

(* ------------------------------------------------------------------ *)
(* C11: the domain-separator hash is keccak256 of exactly 96 bytes:    *)
(* the domain type-hash, the configured network's chain id as a        *)
(* zero-padded big-endian word, then bytes [0,32) of chunk 7.          *)
(* ------------------------------------------------------------------ *)
\* the chain id of the configured network, big-endian without padding
ChainIdBytes ==
    IF COIN_VARIANT = COIN_VARIANT_ACRE THEN <<1>> ELSE <<170, 54, 167>>

ExpectedDomainInput ==
    domain_separator_typehash \o ZeroPad32(ChainIdBytes)
    \o Slice(TheChunk(7), 0, 32)

C11_DomainSeparatorHash ==
    domain_separator_hash # <<>> =>
        /\ Len(ExpectedDomainInput) = 96
        /\ domain_separator_hash = Keccak256(ExpectedDomainInput)

(* ------------------------------------------------------------------ *)
(* C12: every value handed to the signer is the double hash of the     *)
(* magic prefix, the varint of the hex string's length and the 64      *)
(* character hex rendering of this request's final hash; the signer is *)
(* keyed by this request's path; the final hash itself is not signed.  *)
(* ------------------------------------------------------------------ *)
C12_SignedValueIsMessageDigest ==
    \A k \in DOMAIN signer_calls :
        /\ Len(tx_hash_str) = 64
        /\ tx_hash_str = format_hex(tx_hash)
        /\ signer_calls[k].hash =
              Sha256(Sha256(BSM_SIGN_MAGIC \o <<64>> \o tx_hash_str))
        /\ signer_calls[k].hash # tx_hash
        /\ signer_calls[k].bip32_path_len = request.bip32_path_len
        /\ Len(signer_calls) = 1

\* the signer has been called for a complete, fully retrieved chunk stream
C12_Witness ==
    /\ SignerInvoked
    /\ request.n_chunks = MaxChunks
    /\ request.bip32_path_len = 1
    /\ failed = {}
    /\ tx_hash # <<>>

(* ------------------------------------------------------------------ *)
(* The response encoding over every signature the signer can write     *)
(* ------------------------------------------------------------------ *)
\* lengths of a DER component the encoding accepts (line 804)
ComponentLens == 0..33
\* final hashes the signature is made for
SampleHashes == {Fill(32, 0), Fill(32, 255)}
\* component lengths <<r, s>> the encoding refuses, within MAX_DER_SIG_LEN
OverlongLens ==
    {<<34, 32>>, <<32, 34>>, <<34, 0>>, <<0, 34>>, <<66, 0>>, <<1, 65>>}

\* the state in which handler_withdraw starts to encode the response
\* (line 797): sign_tx_hash has returned with a DER signature of any
\* component lengths and parity, or has failed; the encoding reads sig and
\* info only
InitSignature ==
    /\ autoapprove = TRUE
    /\ request = [read_ok |-> TRUE, bip32_path_len |-> 0,
                  n_chunks |-> MaxChunks, data_merkle_root |-> 1]
    /\ FirstSubmission
    /\ pc = "encode_response"
    /\ ui_calls = <<>>
    /\ host_failures = 0
    /\ failed = {}
    /\ data_chunk = <<>>
    /\ value_u64 = <<>>
    /\ value_with_ticker = <<>>
    /\ address_type = 0
    /\ redeemer_address = <<>>
    /\ redeemer_address_len = 0
    /\ script_slice = <<>>
    /\ check_calls = <<>>
    /\ hash_context = <<>>
    /\ i = 0
    /\ half = 0
    /\ keccak_of_tx_data = <<>>
    /\ abi_encoded_tx_fields = <<>>
    /\ field = 0
    /\ buffer_writes = <<>>
    /\ keccak_of_abi_encoded_tx_fields = <<>>
    /\ domain_separator_hash = <<>>
    /\ abi_encode_packed = <<>>
    /\ tx_hash \in SampleHashes
    /\ tx_hash_str = format_hex(tx_hash)
    /\ bsm_digest = BsmDigest(tx_hash_str)
    /\ result = <<>>
    /\ \/ \E lens \in (ComponentLens \X ComponentLens) \cup OverlongLens :
          \E r_len \in {lens[1]}, s_len \in {lens[2]}, parity \in {0, 1} :
             /\ signer_calls =
                   <<[bip32_path_len |-> request.bip32_path_len,
                      hash |-> bsm_digest,
                      answer |-> [ok |-> TRUE, r_len |-> r_len,
                                  s_len |-> s_len, parity |-> parity]]>>
             /\ sig = DerSignature(request.bip32_path_len, bsm_digest,
                                   r_len, s_len)
             /\ info = Uint32(parity)
             /\ sent = <<>>
             /\ notified = <<>>
       \/ \E g \in UninitBytes :
             /\ signer_calls =
                   <<[bip32_path_len |-> request.bip32_path_len,
                      hash |-> bsm_digest,
                      answer |-> [ok |-> FALSE, r_len |-> 0,
                                  s_len |-> 0, parity |-> 0]]>>
             /\ sig = Fill(MAX_DER_SIG_LEN, g)
             /\ info = UINT32_MINUS_ONE
             /\ sent = SEND_SW(<<>>, "BadState")
             /\ notified = ui_post_processing_confirm_withdraw(<<>>, FALSE)

NextSignature ==
    \/ EncodeResponseBadState
    \/ EncodeResponseOk

SpecSignature == InitSignature /\ [][NextSignature]_vars

\* the components of the DER signature in sig (lines 801-802, 816, 819)
DerR == Slice(sig, 4, sig[4])
DerS == Slice(sig, 4 + sig[4] + 2, sig[4 + sig[4] + 2])
\* a component right-aligned to 32 bytes: padded on the left, or without
\* its pad byte when it is 33 bytes long
RightAligned32(c) ==
    IF Len(c) = 33 THEN Slice(c, 1, 32) ELSE ZeroPad32(c)

OkResponses == {k \in DOMAIN sent : sent[k].sw = "Ok"}

(* ------------------------------------------------------------------ *)
(* C13: every success response is exactly 65 bytes long and its byte 0 *)
(* is 27 + 4 + p, p being the parity bit of the signature (31 or 32);  *)
(* no byte of r ends up in byte 0.                                     *)
(* ------------------------------------------------------------------ *)
C13_RecoveryByte ==
    \A k \in OkResponses :
        /\ Len(sent[k].data) = 65
        /\ sent[k].data[1] = 27 + 4 + (info[2] % 2)
        /\ sent[k].data[1] \in {31, 32}

\* a response was sent for a signature whose r has 33 bytes and odd parity
C13_Witness ==
    /\ Done
    /\ OkResponses # {}
    /\ ~SignerFailed
    /\ sig[4] = 33
    /\ info = Uint32(1)
    /\ result[1] = 32

(* ------------------------------------------------------------------ *)
(* C14: for a DER signature whose r and s lengths are in 0..33, bytes  *)
(* [1,33) of the response are r right-aligned to 32 bytes and bytes    *)
(* [33,65) are s right-aligned to 32 bytes; the pad byte of a 33-byte  *)
(* s leaves the last byte of r as it is.                               *)
(* ------------------------------------------------------------------ *)
C14_ComponentsRightAligned ==
    (Done /\ ~SignerFailed /\ sig[4] <= 33 /\ Len(DerS) <= 33) =>
        /\ OkResponses # {}
        /\ \A k \in OkResponses :
              /\ Slice(sent[k].data, 1, 32) = RightAligned32(DerR)
              /\ Slice(sent[k].data, 33, 32) = RightAligned32(DerS)
              /\ (Len(DerS) = 33 /\ Len(DerR) > 0) =>
                     sent[k].data[33] = DerR[Len(DerR)]

\* a response for a 20-byte r and a 33-byte s
C14_Witness ==
    /\ Done
    /\ ~SignerFailed
    /\ OkResponses # {}
    /\ Len(DerR) = 20
    /\ Len(DerS) = 33
    /\ result[33] = DerR[20]
    /\ result[33] # 0

(* ------------------------------------------------------------------ *)
(* The confirmation pass over every sample amount                      *)
(* ------------------------------------------------------------------ *)
\* production build, a well-formed request for a complete stream whose
\* display field holds any of the sample amounts
InitAmount ==
    /\ autoapprove = FALSE
    /\ request \in [read_ok : {TRUE}, bip32_path_len : {0},
                    n_chunks : {MaxChunks}, data_merkle_root : AmountRoots]
    /\ FirstSubmission
    /\ host_failures = 0
    /\ InitLocals

\* handler_withdraw up to the return of display_data_content_and_confirm
NextAmount ==
    \/ ReadRequest
    \/ DisplayFetchAmount
    \/ DisplayFetchScript
    \/ DisplayDecodeInvalid
    \/ DisplayCheckAddress
    \/ DisplayAddressVerdict
    \/ DisplayConfirm
    \/ HandlerDeny

SpecAmount == InitAmount /\ [][NextAmount]_vars

\* the text display_data_content_and_confirm holds for the user
ConfirmationText == CString(value_with_ticker)

RECURSIVE StripTrailingZeros(_)
StripTrailingZeros(d) ==
    IF d # <<>> /\ d[Len(d)] = 48
    THEN StripTrailingZeros(SubSeq(d, 1, Len(d) - 1))
    ELSE d

\* the fixed-point rendering of value / 10^18 without the trailing zeros of
\* the fraction, and without the point when no fraction is left
WithoutFractionZeros(full) ==
    SubSeq(full, 1, Len(full) - 19)
    \o (IF StripTrailingZeros(SubSeq(full, Len(full) - 17, Len(full))) = <<>>
        THEN <<>>
        ELSE <<46>> \o StripTrailingZeros(SubSeq(full, Len(full) - 17, Len(full))))

ExpectedAmountText(value) ==
    CHOOSE out \in {WithoutFractionZeros(full) :
                        full \in {format_fpu64(value, 18)}} : TRUE

(* ------------------------------------------------------------------ *)
(* C15: the text left by formatting and trimming never ends with '.',  *)
(* and for the amount zero its amount part is "0".                     *)
(* ------------------------------------------------------------------ *)
C15_NoTrailingPointZeroKept ==
    value_with_ticker # <<>> =>
        /\ ConfirmationText # <<>>
        /\ ConfirmationText[Len(ConfirmationText)] # 46
        /\ IsZero(value_u64) => ConfirmationText = TickerPrefix \o <<48>>

(* ------------------------------------------------------------------ *)
(* C16: the confirmation text is the ticker, one space and the         *)
(* 18-decimal rendering of the amount with only the trailing zeros of  *)
(* the fraction (and then the point) removed; no digit of the integer  *)
(* part is removed.                                                    *)
(* ------------------------------------------------------------------ *)
C16_TextIsAmount ==
    value_with_ticker # <<>> =>
        ConfirmationText = TickerPrefix \o ExpectedAmountText(value_u64)

(* ------------------------------------------------------------------ *)
(* C17: a request that cannot be read completely ends with the single  *)
(* outcome WrongDataLength, a request whose path is longer than the    *)
(* maximum is rejected; for neither is a chunk fetched, the user       *)
(* asked, the signer invoked or a signature sent.                      *)
(* ------------------------------------------------------------------ *)
ShortRequest == ~request.read_ok
PathTooLong == request.bip32_path_len > MAX_BIP32_PATH_STEPS
\* no retrieval has been attempted: none has failed and none has
\* delivered a chunk to the display pass or to the hashes
NoChunkFetched ==
    /\ failed = {}
    /\ data_chunk = <<>>
    /\ hash_context = <<>>
    /\ abi_encoded_tx_fields = <<>>
    /\ domain_separator_hash = <<>>

C17_MalformedRequestRejected ==
    (ShortRequest \/ PathTooLong) =>
        /\ NoChunkFetched
        /\ ui_calls = <<>>
        /\ ~SignerInvoked
        /\ ~SignatureSent
        /\ pc \in {"read_request", "done"}
        /\ (Done /\ ShortRequest) =>
              sent = <<[sw |-> "WrongDataLength", data |-> <<>>]>>
        /\ (Done /\ ~ShortRequest) =>
              sent = <<[sw |-> "IncorrectData", data |-> <<>>]>>

\* a complete request with one path step too many has been rejected
C17_Witness ==
    /\ Done
    /\ ~ShortRequest
    /\ PathTooLong
    /\ request.n_chunks = MaxChunks
    /\ sent = <<[sw |-> "IncorrectData", data |-> <<>>]>>

(* ------------------------------------------------------------------ *)
(* The same request submitted twice                                    *)
(* ------------------------------------------------------------------ *)
\* what is kept of the first run for the comparison with the second
Observed ==
    [autoapprove |-> autoapprove,
     sent |-> sent,
     ui_calls |-> ui_calls,
     failed |-> failed,
     address_type |-> address_type,
     redeemer_address |-> redeemer_address,
     redeemer_address_len |-> redeemer_address_len,
     signer_calls |-> signer_calls,
     tx_hash |-> tx_hash,
     result |-> result]

\* the first run has ended; the client submits the byte-identical request
\* again, to the same build or to the build of the other configuration.
\* handler_withdraw starts with fresh locals
Resubmit ==
    /\ pc = "done"
    /\ run = 1
    /\ run' = 2
    /\ first' = Observed
    /\ autoapprove' \in BOOLEAN
    /\ pc' = "read_request"
    /\ sent' = <<>>
    /\ notified' = <<>>
    /\ ui_calls' = <<>>
    /\ failed' = {}
    /\ data_chunk' = <<>>
    /\ value_u64' = <<>>
    /\ value_with_ticker' = <<>>
    /\ address_type' = 0
    /\ redeemer_address' = <<>>
    /\ redeemer_address_len' = 0
    /\ script_slice' = <<>>
    /\ check_calls' = <<>>
    /\ hash_context' = <<>>
    /\ i' = 0
    /\ half' = 0
    /\ keccak_of_tx_data' = <<>>
    /\ abi_encoded_tx_fields' = <<>>
    /\ field' = 0
    /\ buffer_writes' = <<>>
    /\ keccak_of_abi_encoded_tx_fields' = <<>>
    /\ domain_separator_hash' = <<>>
    /\ abi_encode_packed' = <<>>
    /\ tx_hash' = <<>>
    /\ tx_hash_str' = <<>>
    /\ bsm_digest' = <<>>
    /\ signer_calls' = <<>>
    /\ sig' = <<>>
    /\ info' = Uint32(0)
    /\ result' = <<>>
    /\ UNCHANGED <<request, host_failures>>

\* a host that serves every chunk it has: no retrieval of a chunk in range
\* fails, in either run
InitTwice ==
    /\ autoapprove \in BOOLEAN
    /\ request \in [read_ok : {TRUE}, bip32_path_len : {0},
                    n_chunks : {0, MaxChunks}, data_merkle_root : {1}]
    /\ FirstSubmission
    /\ host_failures = MaxHostFailures
    /\ InitLocals

NextTwice ==
    \/ Next
    \/ Resubmit

SpecTwice == InitTwice /\ [][NextTwice]_vars

SecondRunDone == run = 2 /\ Done

\* the script decoder and the user answered the second run as the first
SameAnswers ==
    /\ first.ui_calls = ui_calls
    /\ first.address_type = address_type
    /\ first.redeemer_address = redeemer_address
    /\ first.redeemer_address_len = redeemer_address_len
\* the same retrievals failed (those of chunks the stream does not have)
SameChunksServed == first.failed = failed
\* the signer answers equal calls equally
DeterministicSigner ==
    \A j \in DOMAIN first.signer_calls, k \in DOMAIN signer_calls :
        (/\ first.signer_calls[j].bip32_path_len = signer_calls[k].bip32_path_len
         /\ first.signer_calls[j].hash = signer_calls[k].hash)
            => first.signer_calls[j].answer = signer_calls[k].answer

(* ------------------------------------------------------------------ *)
(* C18: two runs of the handler on the same request, with the host     *)
(* serving the same chunks, the user answering the same and the signer *)
(* deterministic, send the same outcome codes and the same response    *)
(* bytes.                                                              *)
(* ------------------------------------------------------------------ *)
C18_Deterministic ==
    (/\ SecondRunDone
     /\ first.autoapprove = autoapprove
     /\ SameAnswers
     /\ SameChunksServed
     /\ DeterministicSigner) => sent = first.sent

(* ------------------------------------------------------------------ *)
(* C19: the auto-approve build differs from the production build only  *)
(* in not waiting for the user: a request the production build rejects *)
(* without asking the user is rejected by the auto-approve build too,  *)
(* and a request the user approves gets the same hash, signature and   *)
(* response from both.                                                 *)
(* ------------------------------------------------------------------ *)
\* the first run was the production build's, this one is the other's
ProductionThenAutoapprove == run = 2 /\ ~first.autoapprove /\ autoapprove

\* the production build decoded the script of chunk 10 and rejected the
\* request before the confirmation screen
FirstRejectedUnasked ==
    /\ first.address_type # 0
    /\ [pass |-> "confirm", index |-> DATA_CHUNK_INDEX_2] \notin first.failed
    /\ first.ui_calls = <<>>
    /\ \E k \in DOMAIN first.sent : first.sent[k].sw = "IncorrectData"

FirstApproved ==
    /\ first.ui_calls # <<>>
    /\ first.ui_calls[Len(first.ui_calls)].approved

HashingFailures(f) == {x \in f : x.pass = "hash"}

C19_AutoapproveElidesOnlyTheWait ==
    /\ (ProductionThenAutoapprove /\ FirstRejectedUnasked) =>
          /\ ~SignerInvoked
          /\ ~SignatureSent
    /\ (/\ ProductionThenAutoapprove
        /\ Done
        /\ FirstApproved
        /\ HashingFailures(first.failed) = HashingFailures(failed)
        /\ DeterministicSigner) =>
          /\ tx_hash = first.tx_hash
          /\ signer_calls = first.signer_calls
          /\ result = first.result
          /\ sent = first.sent

(* ------------------------------------------------------------------ *)
(* C20: every non-Ok outcome sent is accompanied by a request to the   *)
(* display to show a failure, whose own failure neither changes the    *)
(* outcome nor sends another; the display is told of success only      *)
(* with the Ok response sent.                                          *)
(* ------------------------------------------------------------------ *)
C20_FailureIsShown ==
    /\ Len(notified) = Len(sent)
    /\ \A k \in DOMAIN sent : notified[k] = (sent[k].sw = "Ok")
    /\ (\E k \in DOMAIN notified : notified[k]) => SignatureSent

\* a request that reported a failed retrieval and then its Ok response
C20_Witness ==
    /\ Done
    /\ Len(sent) >= 2
    /\ sent[1].sw = "WrongDataLength"
    /\ ~notified[1]
    /\ sent[Len(sent)].sw = "Ok"
    /\ notified[Len(notified)]

(* ------------------------------------------------------------------ *)
(* C21: the steps of a request occur only in the order ReceiveRequest, *)
(* ValidateInput, ConfirmWithUser (production), ComputeHash, Sign,     *)
(* EncodeResponse, Terminal; no step is executed twice or after a      *)
(* later one; in production the signer is invoked only after the user  *)
(* has approved the displayed amount and redeemer address.             *)
(* ------------------------------------------------------------------ *)
\* the step a position of the handler belongs to; the request is received
\* and validated by the same statements (lines 739-756)
StepOf(p) ==
    CASE p = "read_request" -> 1
      [] p \in {"display_amount", "display_script", "display_validate",
                "address_checked", "ui_confirm", "display_false"} -> 2
      [] p \in {"compute_tx_hash", "hash_loop", "abi_encode", "struct_hash",
                "domain_separator", "final_hash"} -> 3
      [] p = "sign" -> 4
      [] p = "encode_response" -> 5
      [] p = "done" -> 6

\* the user approved, on the screen, the values the function decoded
ApprovedByUser ==
    /\ Len(ui_calls) = 1
    /\ ui_calls[1].approved
    /\ ui_calls[1].value = value_u64
    /\ ui_calls[1].address = redeemer_address

C21_StepsInOrder ==
    /\ [](/\ Len(ui_calls) <= 1
          /\ Len(signer_calls) <= 1
          /\ Cardinality(OkResponses) <= 1
          /\ (autoapprove => StepOf(pc) # 2)
          /\ (Production /\ StepOf(pc) \in {3, 4, 5}) => ApprovedByUser
          /\ (Production /\ SignerInvoked) => ApprovedByUser)
    /\ [][/\ StepOf(pc') >= StepOf(pc)
          /\ StepOf(pc') = StepOf(pc) => StepOf(pc) \in {2, 3}
          /\ StepOf(pc') > StepOf(pc) =>
                \/ StepOf(pc') = StepOf(pc) + 1
                \/ StepOf(pc) = 1 /\ StepOf(pc') = 3 /\ autoapprove
                \/ pc' = "done"]_vars

\* a production request went through every step and sent its signature
C21_Witness ==
    /\ Done
    /\ Production
    /\ ApprovedByUser
    /\ SignatureSent
    /\ Len(sent) = 1
    /\ request.n_chunks = MaxChunks
    /\ failed = {}

(* ------------------------------------------------------------------ *)
(* C22: when the retrieval of chunk 5 or of chunk 10 fails in the      *)
(* confirmation pass, the request is aborted: no amount and no         *)
(* redeemer address is decoded from the chunk buffer, check_address is *)
(* not called and the user is not asked.                               *)
(* ------------------------------------------------------------------ *)
ConfirmFailure(index) == [pass |-> "confirm", index |-> index] \in failed

C22_ConfirmFetchFailureAborts ==
    /\ ConfirmFailure(DATA_CHUNK_INDEX_1) =>
          /\ value_u64 = <<>>
          /\ value_with_ticker = <<>>
          /\ pc \notin {"display_script", "display_validate"}
    /\ ConfirmFailure(DATA_CHUNK_INDEX_2) =>
          /\ script_slice = <<>>
          /\ address_type = 0
          /\ redeemer_address = <<>>
    /\ (ConfirmFailure(DATA_CHUNK_INDEX_1) \/ ConfirmFailure(DATA_CHUNK_INDEX_2)) =>
          /\ check_calls = <<>>
          /\ ui_calls = <<>>
          /\ StepOf(pc) \notin {3, 4, 5}

(* ------------------------------------------------------------------ *)
(* check_address over candidates of every kind                         *)
(* ------------------------------------------------------------------ *)
\* lengths get_script_address reports for the candidate: none, one, the
\* length of the sample addresses, the bound, past the bound, and values
\* that do not fit the uint8_t parameter
CandidateLens ==
    {0, 1, 6, MAX_ADDRESS_LENGTH_STR, MAX_ADDRESS_LENGTH_STR + 1, 255, 256, 262}

\* display_data_content_and_confirm before line 231: both chunks retrieved,
\* the amount formatted, the script decoded to a candidate of any type,
\* text and length
InitAddress ==
    /\ autoapprove = FALSE
    /\ request \in [read_ok : {TRUE}, bip32_path_len : {0, 1},
                    n_chunks : {MaxChunks}, data_merkle_root : {1}]
    /\ FirstSubmission
    /\ pc = "display_validate"
    /\ sent = <<>>
    /\ notified = <<>>
    /\ ui_calls = <<>>
    /\ host_failures = 0
    /\ failed = {}
    /\ data_chunk = TheChunk(DATA_CHUNK_INDEX_2)
    /\ value_u64 = read_u64_be(TheChunk(DATA_CHUNK_INDEX_1), CHUNK_SECOND_PART + 24)
    /\ \E value \in {format_fpu64(value_u64, 18)} :
       \E buf \in {snprintf_value_with_ticker(value, 0)} :
          value_with_ticker = TrimTrailingZeros(buf)
    /\ script_slice =
          [offset |-> CHUNK_SECOND_PART + 1,
           len |-> SizeMinusOne(ClampScriptLength(read_u16_be(data_chunk, 30)))]
    /\ address_type \in AddressTypes
    /\ redeemer_address \in
          {get_address(request.bip32_path_len, t) : t \in AddressTypes}
          \cup {OtherAddress, UpperCase(get_address(request.bip32_path_len, 1))}
    /\ redeemer_address_len \in CandidateLens
    /\ check_calls = <<>>
    /\ hash_context = <<>>
    /\ i = 0
    /\ half = 0
    /\ keccak_of_tx_data = <<>>
    /\ abi_encoded_tx_fields = <<>>
    /\ field = 0
    /\ buffer_writes = <<>>
    /\ keccak_of_abi_encoded_tx_fields = <<>>
    /\ domain_separator_hash = <<>>
    /\ abi_encode_packed = <<>>
    /\ tx_hash = <<>>
    /\ tx_hash_str = <<>>
    /\ bsm_digest = <<>>
    /\ signer_calls = <<>>
    /\ sig = <<>>
    /\ info = Uint32(0)
    /\ result = <<>>

\* lines 239-257 and the handler's lines 764-774
NextAddress ==
    \/ DisplayCheckAddress
    \/ DisplayAddressVerdict
    \/ DisplayConfirm
    \/ HandlerDeny

SpecAddress == InitAddress /\ [][NextAddress]_vars

(* ------------------------------------------------------------------ *)
(* C23: check_address returns true only when the key derivation and    *)
(* the address encoding succeeded and the derived address equals the   *)
(* candidate byte for byte; it returns false when either fails, when   *)
(* the candidate length is 0 or above the bound; it sends no outcome.  *)
(* ------------------------------------------------------------------ *)
C23_CheckAddress ==
    /\ [](\A k \in DOMAIN check_calls :
            /\ check_calls[k].returned =>
                  /\ check_calls[k].derive_ok
                  /\ check_calls[k].encode_ok
                  /\ redeemer_address =
                         get_address(request.bip32_path_len, address_type)
                  /\ check_calls[k].len >= 1
                  /\ check_calls[k].len <= MAX_ADDRESS_LENGTH_STR
            /\ (\/ ~check_calls[k].derive_ok
                \/ ~check_calls[k].encode_ok
                \/ check_calls[k].len = 0
                \/ check_calls[k].len > MAX_ADDRESS_LENGTH_STR) =>
                  ~check_calls[k].returned)
    /\ [][pc' = "address_checked" =>
             /\ sent' = sent
             /\ notified' = notified
             /\ ui_calls' = ui_calls]_vars

\* check_address has returned true for a candidate of the longest length
\* allowed, and false for one a byte longer
C23_Witness ==
    /\ pc = "ui_confirm"
    /\ check_calls # <<>>
    /\ check_calls[1].returned
    /\ check_calls[1].len = MAX_ADDRESS_LENGTH_STR
    /\ address_type = 2

(* ------------------------------------------------------------------ *)
(* C24: for every value of the length word at bytes [30,32) of the     *)
(* second display chunk, the slice handed to the script decoders       *)
(* starts at byte 33, has the clamped length less one, at most 31      *)
(* bytes, and ends inside the 64-byte chunk.                           *)
(* ------------------------------------------------------------------ *)
\* the length word of the chunk the slice was taken from
ScriptLengthWord == read_u16_be(data_chunk, 30)

C24_ScriptSliceInsideChunk ==
    script_slice # <<>> =>
        /\ script_slice.offset = CHUNK_SECOND_PART + 1
        /\ script_slice.len[1] = 0
        /\ script_slice.len[2] <= 31
        /\ script_slice.offset + script_slice.len[2] <= CHUNK_SIZE_IN_BYTES
        /\ script_slice.len[2] + 1 = ClampScriptLength(ScriptLengthWord)

(* ------------------------------------------------------------------ *)
(* C25: when the length of r or of s read from the DER signature is    *)
(* above 33, the request ends with BadState, the 65-byte result holds  *)
(* no byte of the signature and no response data is sent.              *)
(* ------------------------------------------------------------------ *)
\* lines 801-802 on the signature in sig (for an r of at most 33 bytes the
\* length of s is read inside the array)
OverlongComponent ==
    /\ sig # <<>>
    /\ \/ sig[4] > 33
       \/ sig[4] <= 33 /\ sig[4 + sig[4] + 2] > 33

C25_OverlongComponentIsBadState ==
    (Done /\ SignerInvoked /\ OverlongComponent) =>
        /\ sent # <<>>
        /\ sent[Len(sent)].sw = "BadState"
        /\ result = Fill(65, 0)
        /\ OkResponses = {}
        /\ \A k \in DOMAIN sent : sent[k].data = <<>>

\* the signer wrote a signature with a 32-byte r and a 34-byte s
C25_Witness ==
    /\ Done
    /\ ~SignerFailed
    /\ sig[4] = 32
    /\ sig[4 + sig[4] + 2] = 34
    /\ sent = <<[sw |-> "BadState", data |-> <<>>]>>
    /\ notified = <<FALSE>>

(* ------------------------------------------------------------------ *)
(* Progress of one request                                             *)
(* ------------------------------------------------------------------ *)
\* a well-formed or short request for each chunk count, either build; the
\* host answers every retrieval, with the chunk when the stream has it
InitLive ==
    /\ autoapprove \in BOOLEAN
    /\ request \in [read_ok : BOOLEAN, bip32_path_len : {0},
                    n_chunks : ChunkCounts, data_merkle_root : {1}]
    /\ FirstSubmission
    /\ host_failures = MaxHostFailures
    /\ InitLocals

\* the handler runs sequentially: each statement is executed once the
\* host or the user has answered the one before, so a step that can be
\* taken is taken
SpecLive == InitLive /\ [][Next]_vars /\ WF_vars(Next)

(* ------------------------------------------------------------------ *)
(* C26: with the host answering every retrieval and the user answering *)
(* the confirmation, every request reaches a terminal outcome; past    *)
(* the confirmation step nothing cancels it; the payload loop visits   *)
(* each index 5 .. n_chunks - 1 once and ends.                         *)
(* ------------------------------------------------------------------ *)
\* the index the loop of fetch_and_hash_tx_data ends with
LastIndex == IF request.n_chunks > 5 THEN request.n_chunks ELSE 5

C26_Terminates ==
    /\ <>(Done /\ sent # <<>>)
    /\ [](pc = "hash_loop" => i >= 5 /\ i <= LastIndex)
    /\ [][StepOf(pc) \in {3, 4, 5} =>
             /\ ui_calls' = ui_calls
             /\ pc' # "display_false"
             /\ \A k \in DOMAIN sent' : sent'[k].sw # "Denied"]_vars
    /\ [][(pc = "hash_loop" /\ pc' = "hash_loop") =>
             \/ half = 0 /\ half' = 1 /\ i' = i
             \/ half = 1 /\ half' = 0 /\ i' = i + 1]_vars
    /\ [][(pc = "hash_loop" /\ pc' # "hash_loop") =>
             /\ pc' = "abi_encode"
             /\ i = LastIndex
             /\ half = 0]_vars

\* the loop has run over every index of a complete stream and the request
\* has ended with its signature
C26_Witness ==
    /\ Done
    /\ request.n_chunks = MaxChunks
    /\ i = MaxChunks
    /\ keccak_of_tx_data = Keccak256(MaterialisedPayload)
    /\ SignatureSent

(* ------------------------------------------------------------------ *)
(* C27: in a production request that ends with a signature sent, the   *)
(* amount and the redeemer script shown for confirmation were read     *)
(* from chunks 5 and 10 as authenticated against the request's root,   *)
(* and both chunks are part of the payload whose hash is in the final  *)
(* hash that was signed.                                               *)
(* ------------------------------------------------------------------ *)
\* the amount on the screen is the one of chunk 5, and the script decoded
\* was read from chunk 10
ShownFromAuthenticatedChunks ==
    /\ ~ConfirmFailure(DATA_CHUNK_INDEX_1)
    /\ ~ConfirmFailure(DATA_CHUNK_INDEX_2)
    /\ ui_calls # <<>>
    /\ ui_calls[1].value =
          read_u64_be(TheChunk(DATA_CHUNK_INDEX_1), CHUNK_SECOND_PART + 24)
    /\ data_chunk = TheChunk(DATA_CHUNK_INDEX_2)

\* the payload hash covers chunks 5 .. n_chunks - 1, chunk 10 among them,
\* and is the fourth word of the struct whose hash was combined and signed
PayloadIsSigned ==
    /\ request.n_chunks > DATA_CHUNK_INDEX_2
    /\ keccak_of_tx_data = Keccak256(MaterialisedPayload)
    /\ Slice(abi_encoded_tx_fields, 3 * FIELD_SIZE, 32) = keccak_of_tx_data
    /\ \A k \in 1..Len(abi_encoded_tx_fields) : abi_encoded_tx_fields[k] # -1
    /\ keccak_of_abi_encoded_tx_fields = Keccak256(abi_encoded_tx_fields)
    /\ tx_hash = Keccak256(EncodePacked(domain_separator_hash,
                                        keccak_of_abi_encoded_tx_fields))
    /\ signer_calls[1].hash = BsmDigest(format_hex(tx_hash))

C27_ConfirmedIsSigned ==
    (Production /\ Done /\ SignatureSent) =>
        /\ ShownFromAuthenticatedChunks
        /\ PayloadIsSigned

(* ------------------------------------------------------------------ *)
(* C28: in every struct buffer built, the operation word and the nonce *)
(* word are both taken from chunk 3 at byte 0, so the last byte of the *)
(* operation word equals the first byte of the nonce word; the last    *)
(* byte of the baseGas word is byte 32 of chunk 2 and equals the first *)
(* byte of the gasPrice word.                                          *)
(* ------------------------------------------------------------------ *)
\* byte number b (from 0) of word number w (from 0) of the struct buffer
WordByte(w, b) == abi_encoded_tx_fields[WordOffset(w) + b + 1]

C28_SharedSourceBytes ==
    pc = "struct_hash" =>
        /\ WordByte(4, 31) = TheChunk(3)[1]
        /\ WordByte(10, 0) = TheChunk(3)[1]
        /\ WordByte(4, 31) = WordByte(10, 0)
        /\ WordByte(6, 31) = TheChunk(2)[CHUNK_SECOND_PART + 1]
        /\ WordByte(7, 0) = TheChunk(2)[CHUNK_SECOND_PART + 1]
        /\ WordByte(6, 31) = WordByte(7, 0)

====
